---- MODULE Spec2Model ----
(***************************************************************************)
(* State-machine model of src/server.py, the 3Dmol.js viewer server: a     *)
(* Flask application with four routes (index, static_files, read_pdb,      *)
(* health) running over a filesystem that other processes may change at    *)
(* any moment.                                                             *)
(*                                                                         *)
(* Text is modelled as a sequence of tokens.  In a path string the token   *)
(* "/" is the separator and every other token is one whole path component  *)
(* (".", "..", or a name); an input never holds two components without a   *)
(* separator between them.  In file contents the tokens "CR" and "LF" are  *)
(* the bytes 0x0D and 0x0A, "XFF" is a byte the locale's codec cannot      *)
(* decode, and every other token is a run of plain characters.             *)
(***************************************************************************)
EXTENDS Integers, Sequences, FiniteSets, TLC

VARIABLES fs, req, endpoint, pc, pdb_path, resp, raised, ops, seen

vars == <<fs, req, endpoint, pc, pdb_path, resp, raised, ops, seen>>

\* Number of requests the server may be handling at the same time.
NumWorkers == 1

Workers == 1..NumWorkers

\* Two requests handled at the same time.
Pair == {1, 2}

----------------------------------------------------------------------------
\* Generic helpers on token sequences.

RECURSIVE DropLeading(_, _)
DropLeading(s, t) ==
    IF s # <<>> /\ Head(s) = t THEN DropLeading(Tail(s), t) ELSE s

RECURSIVE SplitParts(_)
\* The non-separator tokens of s, in order: s split on "/", empty pieces dropped.
SplitParts(s) ==
    IF s = <<>> THEN <<>>
    ELSE IF Head(s) = "/" THEN SplitParts(Tail(s))
    ELSE <<Head(s)>> \o SplitParts(Tail(s))

RECURSIVE DropDots(_)
DropDots(parts) ==
    IF parts = <<>> THEN <<>>
    ELSE IF Head(parts) = "." THEN DropDots(Tail(parts))
    ELSE <<Head(parts)>> \o DropDots(Tail(parts))

RECURSIVE JoinParts(_)
JoinParts(parts) ==
    IF parts = <<>> THEN <<>>
    ELSE IF Len(parts) = 1 THEN parts
    ELSE <<Head(parts), "/">> \o JoinParts(Tail(parts))

Contains(s, t) == \E i \in 1..Len(s) : s[i] = t

\* s holds sub as a contiguous run of tokens.
HasSub(s, sub) ==
    \E i \in 0..(Len(s) - Len(sub)) : SubSeq(s, i + 1, i + Len(sub)) = sub

----------------------------------------------------------------------------
\* pathlib.Path: parsing a string and printing it back (lines 35, 37, 45).

\* Number of leading separators of a path string.
LeadingSlashes(s) == Len(s) - Len(DropLeading(s, "/"))

\* POSIX anchor of a path string: 0 relative, 1 "/", 2 "//" (exactly two
\* leading slashes are kept, three or more collapse to one).
Anchor(s) ==
    IF LeadingSlashes(s) = 0 THEN 0
    ELSE IF LeadingSlashes(s) = 2 THEN 2
    ELSE 1

\* Path(s): the anchor and the components, with empty and "." components
\* dropped; ".." components are kept.  A Path is the record t = "Path",
\* n = anchor, s = components.
Path(s) == [t |-> "Path", n |-> Anchor(s), s |-> DropDots(SplitParts(s))]

AnchorStr(n) == IF n = 0 THEN <<>> ELSE IF n = 1 THEN <<"/">> ELSE <<"/", "/">>

\* str(p) for a Path p.
PathStr(p) ==
    IF p.n = 0 /\ p.s = <<>> THEN <<".">>
    ELSE AnchorStr(p.n) \o JoinParts(p.s)

----------------------------------------------------------------------------
\* The filesystem the server runs over.  Locations are named by strings:
\*   "cwd"         the directory the server runs in, which is also its root
\*   "a"           cwd/a           (changes while the server runs)
\*   "index.html"  cwd/index.html  (changes while the server runs)
\*   "api"         cwd/api, a directory;  "api/health" a file in it
\*   "up"          the parent of cwd;     "s" a file in it, outside the root
\*   "fsroot"      the directory "/"
\* "none" and "notdir" are the results of a lookup that fails with ENOENT
\* and ENOTDIR.

Mutable == {"a", "index.html"}

AbsentFile == [kind |-> "absent", readable |-> FALSE, bytes |-> <<>>]
DirFile == [kind |-> "dir", readable |-> TRUE, bytes |-> <<>>]
RegularFile(b) == [kind |-> "file", readable |-> TRUE, bytes |-> b]

\* What a write may put into each mutable file.
Contents(name) ==
    IF name = "a"
    THEN {<<"ATOM", "CR", "LF", "END", "CR">>, <<"XFF">>}
    ELSE {<<"<html>", "CR", "LF">>}

\* The file object at a location.
Node(loc) ==
    IF loc \in Mutable THEN fs[loc]
    ELSE IF loc \in {"cwd", "api", "up", "fsroot"} THEN DirFile
    ELSE IF loc = "api/health" THEN RegularFile(<<"health-file">>)
    ELSE IF loc = "s" THEN RegularFile(<<"secret">>)
    ELSE AbsentFile

Child(loc, name) ==
    IF loc = "cwd" /\ name \in {"a", "index.html", "api"} THEN name
    ELSE IF loc = "api" /\ name = "health" THEN "api/health"
    ELSE IF loc = "up" /\ name = "s" THEN "s"
    ELSE "none"

Parent(loc) ==
    IF loc \in {"a", "index.html", "api"} THEN "cwd"
    ELSE IF loc = "api/health" THEN "api"
    ELSE IF loc = "cwd" THEN "up"
    ELSE IF loc = "s" THEN "up"
    ELSE "fsroot"

RECURSIVE Walk(_, _)
\* Kernel path resolution of the components parts, starting at loc.
Walk(loc, parts) ==
    IF loc \in {"none", "notdir"} THEN loc
    ELSE IF Node(loc).kind = "absent" THEN "none"
    ELSE IF parts = <<>> THEN loc
    ELSE IF Node(loc).kind # "dir" THEN "notdir"
    ELSE IF Head(parts) = "." THEN Walk(loc, Tail(parts))
    ELSE IF Head(parts) = ".." THEN Walk(Parent(loc), Tail(parts))
    ELSE Walk(Child(loc, Head(parts)), Tail(parts))

\* The location a Path names: relative paths start at the working directory.
Locate(p) == Walk(IF p.n = 0 THEN "cwd" ELSE "fsroot", p.s)

\* Path.exists(): stat() succeeds; ENOENT and ENOTDIR give False.
Exists(p) == Locate(p) \notin {"none", "notdir"}

----------------------------------------------------------------------------
\* Exceptions and text-mode reading (lines 39-40).

NoExc == [type |-> "none", msg |-> <<>>]
Exc(type, msg) == [type |-> type, msg |-> msg]

Quoted(s) == <<"'">> \o s \o <<"'">>

\* The exception open(p, 'r') raises, NoExc when the open succeeds.
OpenError(p) ==
    IF Locate(p) = "none"
    THEN Exc("FileNotFoundError",
             <<"[Errno 2] No such file or directory: ">> \o Quoted(PathStr(p)))
    ELSE IF Locate(p) = "notdir"
    THEN Exc("NotADirectoryError",
             <<"[Errno 20] Not a directory: ">> \o Quoted(PathStr(p)))
    ELSE IF Node(Locate(p)).kind = "dir"
    THEN Exc("IsADirectoryError",
             <<"[Errno 21] Is a directory: ">> \o Quoted(PathStr(p)))
    ELSE IF ~Node(Locate(p)).readable
    THEN Exc("PermissionError",
             <<"[Errno 13] Permission denied: ">> \o Quoted(PathStr(p)))
    ELSE NoExc

RECURSIVE Newlines(_)
\* Universal-newline translation of text mode: CR LF and a lone CR become LF.
Newlines(b) ==
    IF b = <<>> THEN <<>>
    ELSE IF Head(b) = "CR" /\ Len(b) > 1 /\ b[2] = "LF"
    THEN <<"LF">> \o Newlines(Tail(Tail(b)))
    ELSE IF Head(b) = "CR" THEN <<"LF">> \o Newlines(Tail(b))
    ELSE <<Head(b)>> \o Newlines(Tail(b))

\* The exception f.read() raises on the bytes b, NoExc when they decode.
DecodeError(b) ==
    IF Contains(b, "XFF")
    THEN Exc("UnicodeDecodeError",
             <<"'utf-8' codec can't decode byte 0xff in position 0: invalid start byte">>)
    ELSE NoExc

\* ReadText with the file opened in a mode that keeps the line ends.
ReadTextUntranslated(b) == b

\* f.read() on a file opened with mode 'r': the decoded text of the bytes b.
ReadText(b) == Newlines(b)

----------------------------------------------------------------------------
\* JSON values and request bodies.  A JSON value is the record t = type,
\* s = the characters of a string or the elements of an array, n = the value
\* of a number (a boolean has n = 1 for true and 0 for false).

JNull == [t |-> "null", s |-> <<>>, n |-> 0]
JStr(s) == [t |-> "str", s |-> s, n |-> 0]
JNum(n) == [t |-> "num", s |-> <<>>, n |-> n]
JBool(b) == [t |-> "bool", s |-> <<>>, n |-> IF b THEN 1 ELSE 0]
JList(s) == [t |-> "list", s |-> s, n |-> 0]
\* A key that the object does not hold.
JAbsent == [t |-> "absent", s |-> <<>>, n |-> 0]

\* Truthy with the test written `pdb_path is None`: only null is false.
TruthyUnlessNone(v) == v.t # "null"

\* Python truthiness, as used by `not pdb_path` (line 32).
Truthy(v) ==
    IF v.t = "str" \/ v.t = "list" THEN v.s # <<>>
    ELSE IF v.t = "num" \/ v.t = "bool" THEN v.n # 0
    ELSE FALSE

\* type(v).__name__ of the Python value a JSON value parses to.
TypeName(v) ==
    IF v.t = "num" THEN "int"
    ELSE IF v.t = "bool" THEN "bool"
    ELSE IF v.t = "list" THEN "list"
    ELSE IF v.t = "str" THEN "str"
    ELSE "NoneType"

\* The path strings sent as pdb_path.
PdbStrings ==
    { <<"a">>, <<".", "/", "a">>, <<"api", "/", "/", "health", "/">>,
      <<"..", "/", "s">>, <<"/", "nonexistent", "/", "file.pdb">> }

\* The values sent under the key pdb_path.
PdbValues ==
    {JAbsent, JNull, JStr(<<>>), JNum(0), JBool(FALSE), JList(<<>>),
     JNum(5), JBool(TRUE), JList(<<"a">>)}
    \cup {JStr(s) : s \in PdbStrings}

\* A request body: t = "object" with its pdb_path member, another JSON type,
\* "malformed" (not JSON), or "none" (no body).
Body(t, v) == [t |-> t, pdb_path |-> v]
NoBody == Body("none", JAbsent)

Bodies ==
    {Body("object", v) : v \in PdbValues}
    \cup {Body(t, JAbsent) : t \in {"list", "NoneType", "str", "malformed"}}

ApiReadPdb == <<"api", "/", "read_pdb">>
ApiHealth == <<"api", "/", "health">>

\* A request: method, URL path (the tokens after the leading "/"), body.
Request(m, u, b) == [method |-> m, url |-> u, body |-> b]
NoReq == Request("none", <<>>, NoBody)

GetUrls ==
    { <<>>, ApiHealth, ApiReadPdb, <<"a">>, <<"missing-asset.js">>,
      <<"..", "/", "s">>, <<"api", "/", "..", "/", "a">> }

Requests ==
    {Request("GET", u, NoBody) : u \in GetUrls}
    \cup {Request("POST", u, NoBody) : u \in {ApiHealth}}
    \cup {Request("POST", ApiReadPdb, b) : b \in Bodies}

----------------------------------------------------------------------------
\* Routing (lines 15, 20, 25, 50).

\* The URL rules in registration order.  pattern "exact" matches the URL
\* path `path`; pattern "path" is the converter <path:path>, which matches any
\* non-empty path that does not start with a separator.
Rules ==
    << [endpoint |-> "index", pattern |-> "exact", path |-> <<>>, method |-> "GET"],
       [endpoint |-> "static_files", pattern |-> "path", path |-> <<>>, method |-> "GET"],
       [endpoint |-> "read_pdb", pattern |-> "exact", path |-> ApiReadPdb, method |-> "POST"],
       [endpoint |-> "health", pattern |-> "exact", path |-> ApiHealth, method |-> "GET"] >>

\* Registration order: what a router without rule weights would use.
RegistrationOrder == <<1, 2, 3, 4>>

\* The order the router tries the rules in: rules made of static parts only
\* come before rules with a converter.
MatchOrder == <<1, 3, 4, 2>>

PathMatches(rule, url) ==
    IF rule.pattern = "exact" THEN url = rule.path
    ELSE url # <<>> /\ Head(url) # "/"

RECURSIVE FirstMatch(_, _, _)
FirstMatch(order, method, url) ==
    IF order = <<>> THEN "none"
    ELSE IF PathMatches(Rules[Head(order)], url) /\ Rules[Head(order)].method = method
    THEN Rules[Head(order)].endpoint
    ELSE FirstMatch(Tail(order), method, url)

\* The endpoint a request is dispatched to; "405" when rules match the path
\* but none allows the method, "404" when no rule matches the path.
Route(method, url) ==
    IF FirstMatch(MatchOrder, method, url) # "none"
    THEN FirstMatch(MatchOrder, method, url)
    ELSE IF \E i \in 1..Len(Rules) : PathMatches(Rules[i], url) THEN "405"
    ELSE "404"

----------------------------------------------------------------------------
\* Responses.

Jsonify(payload, status) == [status |-> status, payload |-> payload]
NoResp == [status |-> 0, payload |-> [none |-> TRUE]]
\* The framework's own pages and file responses.
ErrorPage(status) == [status |-> status, payload |-> [html |-> status]]
FileResponse(b) == [status |-> 200, payload |-> [data |-> b]]

\* Required with the status left out of the return statement.
RequiredNoStatus ==
    Jsonify([success |-> FALSE, error |-> <<"pdb_path required">>], 200)

\* Line 33.
Required == Jsonify([success |-> FALSE, error |-> <<"pdb_path required">>], 400)

\* Line 37.
NotFound(p) ==
    Jsonify([success |-> FALSE, error |-> <<"File not found: ">> \o PathStr(p)], 404)

\* Lines 42-46.
Success(content, p) ==
    Jsonify([success |-> TRUE, content |-> content, path |-> PathStr(p)], 200)

\* Except answering with the client-error status.
ExceptAsBadRequest(e) == Jsonify([success |-> FALSE, error |-> e.msg], 400)

\* Lines 47-48: the except clause.
Except(e) == Jsonify([success |-> FALSE, error |-> e.msg], 500)

\* HealthPayload without the service name.
HealthPayloadBare == [status |-> "ok"]

\* Lines 53-56.
HealthPayload == [status |-> "ok", service |-> "3Dmol.js Viewer"]

----------------------------------------------------------------------------
\* send_from_directory('.', path) (lines 18 and 23).

RECURSIVE NormParts(_, _)
\* posixpath.normpath on the components of a relative path: "." is dropped
\* and "x/.." cancels; a ".." with nothing before it to cancel is kept.
NormParts(parts, acc) ==
    IF parts = <<>> THEN acc
    ELSE IF Head(parts) = "." THEN NormParts(Tail(parts), acc)
    ELSE IF Head(parts) = ".." /\ acc # <<>> /\ acc[Len(acc)] # ".."
    THEN NormParts(Tail(parts), SubSeq(acc, 1, Len(acc) - 1))
    ELSE NormParts(Tail(parts), Append(acc, Head(parts)))

\* The path safe_join refuses (returns None for).
Refused == [t |-> "None", n |-> 0, s |-> <<>>]

\* SafeJoin that joins without refusing anything.
JoinUnchecked(path) ==
    [t |-> "Path", n |-> Anchor(path), s |-> NormParts(SplitParts(path), <<>>)]

\* safe_join(root, path): the normalised path under the root, Refused when it
\* is absolute or leaves the root.
SafeJoin(path) ==
    IF Anchor(path) # 0 THEN Refused
    ELSE IF NormParts(SplitParts(path), <<>>) # <<>>
            /\ Head(NormParts(SplitParts(path), <<>>)) = ".."
    THEN Refused
    ELSE [t |-> "Path", n |-> 0, s |-> NormParts(SplitParts(path), <<>>)]

\* The location send_from_directory serves for path, "none" when it raises
\* NotFound: the path is refused or does not name a regular file.
ServedLoc(path) ==
    IF SafeJoin(path) = Refused THEN "none"
    ELSE IF ~Exists(SafeJoin(path)) THEN "none"
    ELSE IF Node(Locate(SafeJoin(path))).kind # "file" THEN "none"
    ELSE Locate(SafeJoin(path))

\* The response of a view that returns send_from_directory('.', path): the
\* file's bytes, the 404 page, or the 500 page when opening the file fails
\* (the exception leaves the view; the framework answers).
SendFromDirectory(path) ==
    IF ServedLoc(path) = "none" THEN ErrorPage(404)
    ELSE IF ~Node(ServedLoc(path)).readable THEN ErrorPage(500)
    ELSE FileResponse(Node(ServedLoc(path)).bytes)

----------------------------------------------------------------------------
\* The state.
\*   fs        the mutable files
\*   req       per worker, the request being handled
\*   endpoint  per worker, the endpoint the request was dispatched to
\*   pc        per worker, the position in the handler
\*   pdb_path  per worker, read_pdb's local variable
\*   resp      per worker, the response once the handler has returned
\*   raised    per worker, the exception raised inside read_pdb's try block
\*   ops       per worker, the filesystem calls the handler has made
\*   seen      per worker, what those calls found: the kind of file at the
\*             existence check, the file object at the open, the location of
\*             the file whose bytes were sent

Unseen == [kind |-> "unseen", readable |-> FALSE, bytes |-> <<>>]
NoSeen == [atCheck |-> "unseen", atOpen |-> Unseen, loc |-> "none"]
NoPath == JAbsent

\* The file object a lookup of p finds.
Found(p) == IF Exists(p) THEN Node(Locate(p)) ELSE AbsentFile

\* The state after construction, with the set W of workers.
InitOf(W) ==
    /\ fs = [n \in Mutable |->
                IF n = "a" THEN AbsentFile ELSE RegularFile(<<"<html>", "CR", "LF">>)]
    /\ req = [w \in W |-> NoReq]
    /\ endpoint = [w \in W |-> "none"]
    /\ pc = [w \in W |-> "idle"]
    /\ pdb_path = [w \in W |-> NoPath]
    /\ resp = [w \in W |-> NoResp]
    /\ raised = [w \in W |-> NoExc]
    /\ ops = [w \in W |-> <<>>]
    /\ seen = [w \in W |-> NoSeen]

----------------------------------------------------------------------------
\* The environment: other processes change the files.

FsWrite(name, b) ==
    /\ fs[name].kind # "dir"
    /\ fs[name].kind = "file" => fs[name].readable
    /\ fs' = [fs EXCEPT ![name] = RegularFile(b)]
    /\ UNCHANGED <<req, endpoint, pc, pdb_path, resp, raised, ops, seen>>

FsRemove(name) ==
    /\ fs[name].kind # "absent"
    /\ fs' = [fs EXCEPT ![name] = AbsentFile]
    /\ UNCHANGED <<req, endpoint, pc, pdb_path, resp, raised, ops, seen>>

FsMkdir(name) ==
    /\ name = "a"
    /\ fs[name].kind = "absent"
    /\ fs' = [fs EXCEPT ![name] = DirFile]
    /\ UNCHANGED <<req, endpoint, pc, pdb_path, resp, raised, ops, seen>>

FsChmod(name) ==
    /\ name = "a"
    /\ fs[name].kind = "file"
    /\ fs' = [fs EXCEPT ![name].readable = ~fs[name].readable]
    /\ UNCHANGED <<req, endpoint, pc, pdb_path, resp, raised, ops, seen>>

----------------------------------------------------------------------------
\* The server.

\* A request arrives and the router dispatches it: the worker continues at
\* the endpoint's view function, or at "405"/"404" when there is none.
Receive(w, r) ==
    /\ pc[w] = "idle"
    /\ req' = [req EXCEPT ![w] = r]
    /\ endpoint' = [endpoint EXCEPT ![w] = Route(r.method, r.url)]
    /\ pc' = [pc EXCEPT ![w] = Route(r.method, r.url)]
    /\ UNCHANGED <<fs, pdb_path, resp, raised, ops, seen>>

\* The router's own answer to a request no view function handles.
Abort(w) ==
    /\ pc[w] \in {"405", "404"}
    /\ resp' = [resp EXCEPT ![w] = ErrorPage(IF pc[w] = "405" THEN 405 ELSE 404)]
    /\ pc' = [pc EXCEPT ![w] = "done"]
    /\ UNCHANGED <<fs, req, endpoint, pdb_path, raised, ops, seen>>

\* A view function that returns send_from_directory('.', path).
Serve(w, path) ==
    /\ resp' = [resp EXCEPT ![w] = SendFromDirectory(path)]
    /\ ops' = [ops EXCEPT ![w] = Append(ops[w], "send_from_directory")]
    /\ seen' = [seen EXCEPT ![w].loc = ServedLoc(path),
                            ![w].atOpen = Node(ServedLoc(path))]
    /\ pc' = [pc EXCEPT ![w] = "done"]
    /\ UNCHANGED <<fs, req, endpoint, pdb_path, raised>>

\* Lines 15-18.
index(w) ==
    /\ pc[w] = "index"
    /\ Serve(w, <<"index.html">>)

\* Lines 20-23.
static_files(w) ==
    /\ pc[w] = "static_files"
    /\ Serve(w, req[w].url)

\* Lines 50-56.
health(w) ==
    /\ pc[w] = "health"
    /\ resp' = [resp EXCEPT ![w] = Jsonify(HealthPayload, 200)]
    /\ pc' = [pc EXCEPT ![w] = "done"]
    /\ UNCHANGED <<fs, req, endpoint, pdb_path, raised, ops, seen>>

\* The exception lines 29-30 raise for a body, NoExc when they succeed:
\* get_json() rejects a body that is not JSON, and data.get exists only when
\* the body is a JSON object.
GetError(body) ==
    IF body.t = "malformed"
    THEN Exc("BadRequest",
             <<"400 Bad Request: The browser (or proxy) sent a request that this server could not understand.">>)
    ELSE IF body.t # "object"
    THEN Exc("AttributeError",
             Quoted(<<body.t>>) \o <<" object has no attribute 'get'">>)
    ELSE NoExc

\* data.get('pdb_path') (line 30): None when the key is absent.
Get(body) == IF body.pdb_path.t = "absent" THEN JNull ELSE body.pdb_path

\* The exception Path(v) raises (line 35), NoExc for a string.
PathError(v) ==
    IF v.t = "str" THEN NoExc
    ELSE Exc("TypeError",
             <<"expected str, bytes or os.PathLike object, not ", TypeName(v)>>)

\* The handler returns r (or the except clause does, after e was raised).
Return(w, r, e) ==
    /\ resp' = [resp EXCEPT ![w] = r]
    /\ raised' = [raised EXCEPT ![w] = e]
    /\ pc' = [pc EXCEPT ![w] = "done"]

\* ReadPdbValidate with the parsed body kept in a module-level variable that
\* every request in flight writes: the handler may see another request's body.
ReadPdbValidateShared(w) ==
    /\ pc[w] = "read_pdb"
    /\ \E v \in DOMAIN pc :
          /\ pc[v] # "idle" /\ endpoint[v] = "read_pdb"
          /\ IF GetError(req[v].body) # NoExc
             THEN /\ Return(w, Except(GetError(req[v].body)), GetError(req[v].body))
                  /\ UNCHANGED pdb_path
             ELSE /\ pdb_path' = [pdb_path EXCEPT ![w] = Get(req[v].body)]
                  /\ IF ~Truthy(Get(req[v].body))
                     THEN Return(w, Required, NoExc)
                     ELSE /\ pc' = [pc EXCEPT ![w] = "exists"]
                          /\ UNCHANGED <<resp, raised>>
    /\ UNCHANGED <<fs, req, endpoint, ops, seen>>

\* Lines 28-33: parse the body, take pdb_path, check that it is given.
ReadPdbValidate(w) ==
    /\ pc[w] = "read_pdb"
    /\ IF GetError(req[w].body) # NoExc
       THEN /\ Return(w, Except(GetError(req[w].body)), GetError(req[w].body))
            /\ UNCHANGED pdb_path
       ELSE /\ pdb_path' = [pdb_path EXCEPT ![w] = Get(req[w].body)]
            /\ IF ~Truthy(Get(req[w].body))
               THEN Return(w, Required, NoExc)
               ELSE /\ pc' = [pc EXCEPT ![w] = "exists"]
                    /\ UNCHANGED <<resp, raised>>
    /\ UNCHANGED <<fs, req, endpoint, ops, seen>>

\* ReadPdbExists without the existence test: the handler goes on to open
\* whatever the path names.
ReadPdbExistsUnchecked(w) ==
    /\ pc[w] = "exists"
    /\ IF PathError(pdb_path[w]) # NoExc
       THEN /\ Return(w, Except(PathError(pdb_path[w])), PathError(pdb_path[w]))
            /\ UNCHANGED <<pdb_path, ops, seen>>
       ELSE /\ pdb_path' = [pdb_path EXCEPT ![w] = Path(pdb_path[w].s)]
            /\ ops' = [ops EXCEPT ![w] = Append(ops[w], "exists")]
            /\ seen' = [seen EXCEPT ![w].atCheck = Found(Path(pdb_path[w].s)).kind]
            /\ pc' = [pc EXCEPT ![w] = "open"]
            /\ UNCHANGED <<resp, raised>>
    /\ UNCHANGED <<fs, req, endpoint>>

\* Lines 35-37: make the Path, check that it exists.
ReadPdbExists(w) ==
    /\ pc[w] = "exists"
    /\ IF PathError(pdb_path[w]) # NoExc
       THEN /\ Return(w, Except(PathError(pdb_path[w])), PathError(pdb_path[w]))
            /\ UNCHANGED <<pdb_path, ops, seen>>
       ELSE /\ pdb_path' = [pdb_path EXCEPT ![w] = Path(pdb_path[w].s)]
            /\ ops' = [ops EXCEPT ![w] = Append(ops[w], "exists")]
            /\ seen' = [seen EXCEPT ![w].atCheck = Found(Path(pdb_path[w].s)).kind]
            /\ IF ~Exists(Path(pdb_path[w].s))
               THEN Return(w, NotFound(Path(pdb_path[w].s)), NoExc)
               ELSE /\ pc' = [pc EXCEPT ![w] = "open"]
                    /\ UNCHANGED <<resp, raised>>
    /\ UNCHANGED <<fs, req, endpoint>>

\* The exception lines 39-40 raise, NoExc when the file is opened and read.
ReadError(p) ==
    IF OpenError(p) # NoExc THEN OpenError(p)
    ELSE DecodeError(Node(Locate(p)).bytes)

\* ReadPdbOpen answering 404 when the file is missing at the open.
ReadPdbOpenNotFound(w) ==
    /\ pc[w] = "open"
    /\ ops' = [ops EXCEPT ![w] =
                  IF OpenError(pdb_path[w]) # NoExc THEN Append(ops[w], "open")
                  ELSE ops[w] \o <<"open", "read">>]
    /\ seen' = [seen EXCEPT ![w].atOpen = Found(pdb_path[w])]
    /\ IF ReadError(pdb_path[w]).type = "FileNotFoundError"
       THEN Return(w, NotFound(pdb_path[w]), NoExc)
       ELSE IF ReadError(pdb_path[w]) # NoExc
       THEN Return(w, Except(ReadError(pdb_path[w])), ReadError(pdb_path[w]))
       ELSE Return(w, Success(ReadText(Node(Locate(pdb_path[w])).bytes), pdb_path[w]),
                   NoExc)
    /\ UNCHANGED <<fs, req, endpoint, pdb_path>>

\* Lines 39-46: open the file, read it, answer with its text.
ReadPdbOpen(w) ==
    /\ pc[w] = "open"
    /\ ops' = [ops EXCEPT ![w] =
                  IF OpenError(pdb_path[w]) # NoExc THEN Append(ops[w], "open")
                  ELSE ops[w] \o <<"open", "read">>]
    /\ seen' = [seen EXCEPT ![w].atOpen = Found(pdb_path[w])]
    /\ IF ReadError(pdb_path[w]) # NoExc
       THEN Return(w, Except(ReadError(pdb_path[w])), ReadError(pdb_path[w]))
       ELSE Return(w, Success(ReadText(Node(Locate(pdb_path[w])).bytes), pdb_path[w]),
                   NoExc)
    /\ UNCHANGED <<fs, req, endpoint, pdb_path>>

\* The response is sent; the worker is free for the next request.  Nothing of
\* the request is kept.
Send(w) ==
    /\ pc[w] = "done"
    /\ req' = [req EXCEPT ![w] = NoReq]
    /\ endpoint' = [endpoint EXCEPT ![w] = "none"]
    /\ pc' = [pc EXCEPT ![w] = "idle"]
    /\ pdb_path' = [pdb_path EXCEPT ![w] = NoPath]
    /\ resp' = [resp EXCEPT ![w] = NoResp]
    /\ raised' = [raised EXCEPT ![w] = NoExc]
    /\ ops' = [ops EXCEPT ![w] = <<>>]
    /\ seen' = [seen EXCEPT ![w] = NoSeen]
    /\ UNCHANGED fs

NextOf(W) ==
    \/ \E n \in Mutable : \E b \in Contents(n) : FsWrite(n, b)
    \/ \E n \in Mutable : FsRemove(n)
    \/ \E n \in Mutable : FsMkdir(n)
    \/ \E n \in Mutable : FsChmod(n)
    \/ \E w \in W : \E r \in Requests : Receive(w, r)
    \/ \E w \in W : Abort(w)
    \/ \E w \in W : index(w)
    \/ \E w \in W : static_files(w)
    \/ \E w \in W : health(w)
    \/ \E w \in W : ReadPdbValidate(w)
    \/ \E w \in W : ReadPdbExists(w)
    \/ \E w \in W : ReadPdbOpen(w)
    \/ \E w \in W : Send(w)

Init == InitOf(Workers)
Next == NextOf(Workers)
Spec == Init /\ [][Next]_vars

\* The same server handling two requests at the same time.
InitPair == InitOf(Pair)
NextPair == NextOf(Pair)
SpecPair == InitPair /\ [][NextPair]_vars

----------------------------------------------------------------------------
\* Properties of POST /api/read_pdb.

\* The handler of worker w has returned.
Done(w) == pc[w] = "done"

\* Worker w handles a request dispatched to read_pdb.
InReadPdb(w) == pc[w] # "idle" /\ endpoint[w] = "read_pdb"

\* The pdb_path member of the body of w's request, when the body is an object.
Given(w) == req[w].body.pdb_path

\* w's request has a JSON object as body.
ObjectBody(w) == InReadPdb(w) /\ req[w].body.t = "object"

\* w's request gives pdb_path as a non-empty string.
GivesPath(w) == ObjectBody(w) /\ Given(w).t = "str" /\ Given(w).s # <<>>

\* A failure response: the status and {success: false, error: msg}.
Failure(status, msg) ==
    [status |-> status, payload |-> [success |-> FALSE, error |-> msg]]

\* C1: a read_pdb request whose body is an object without pdb_path, or with
\* pdb_path null or the empty string, is answered 400 with success=false
\* and an error that names pdb_path, and the handler makes no filesystem
\* call: it never gets to the existence check or the open.
C1_MissingPathIs400 ==
    \A w \in DOMAIN pc :
        (ObjectBody(w) /\ Given(w) \in {JAbsent, JNull, JStr(<<>>)}) =>
            /\ pc[w] \in {"read_pdb", "done"}
            /\ ops[w] = <<>>
            /\ seen[w] = NoSeen
            /\ Done(w) => resp[w] = Failure(400, <<"pdb_path required">>)

C1_Witness ==
    \E w \in DOMAIN pc :
        /\ Done(w) /\ ObjectBody(w) /\ Given(w) = JStr(<<>>)
        /\ resp[w].status = 400

ReadsTextFile(w) ==
    /\ Done(w) /\ GivesPath(w)
    /\ seen[w].atCheck = "file"
    /\ seen[w].atOpen.kind = "file"
    /\ seen[w].atOpen.readable
    /\ ~Contains(seen[w].atOpen.bytes, "XFF")

NotAnObject(w) == InReadPdb(w) /\ req[w].body.t # "object"

\* w's request gives pdb_path as a value that is neither a string nor null.
NonString(w) == ObjectBody(w) /\ Given(w).t \in {"num", "bool", "list"}

\* ... one that Python takes as false: 0, false, an empty array.
FalsyNonString(w) ==
    NonString(w) /\ Given(w) \in {JNum(0), JBool(FALSE), JList(<<>>)}

\* The path existed at the check, and the open or the read then failed: the
\* file was a directory, unreadable, undecodable, or gone.
ReadFailed(w) ==
    /\ GivesPath(w)
    /\ seen[w].atCheck \in {"file", "dir"}
    /\ seen[w].atOpen # Unseen
    /\ \/ seen[w].atOpen.kind # "file"
       \/ ~seen[w].atOpen.readable
       \/ Contains(seen[w].atOpen.bytes, "XFF")

\* The except clause answered: 500, success=false, the exception's message.
Answered500(w) ==
    /\ raised[w] # NoExc
    /\ resp[w] = Failure(500, raised[w].msg)

\* Whatever was raised was answered 500 with its message, and nothing else
\* was: a 200, 400 or 404 response comes with no exception.
RaisedIff500(w) ==
    /\ raised[w] # NoExc => resp[w] = Failure(500, raised[w].msg)
    /\ resp[w].status = 500 => raised[w] # NoExc
    /\ raised[w] = NoExc => resp[w].status \in {200, 400, 404}
    /\ DOMAIN resp[w].payload # {"html"}

\* C4 as stated: every failure while handling read_pdb, among them a body
\* that is not a JSON object, a pdb_path that is not a string, and an
\* existing path that cannot be opened or decoded, is caught and answered 500
\* with the exception's message, never 200, 400 or 404.
C4_EveryNonStringIs500 ==
    \A w \in DOMAIN pc :
        (Done(w) /\ InReadPdb(w)) =>
            /\ RaisedIff500(w)
            /\ (NotAnObject(w) \/ NonString(w) \/ ReadFailed(w)) => Answered500(w)

\* C4 amended: as stated, for a pdb_path that is not a string and that Python
\* takes as true (a non-zero number, true, a non-empty array); one it takes as
\* false (0, false, an empty array) raises nothing and is answered 400 by the
\* validation.
C4_TruthyNonStringIs500 ==
    \A w \in DOMAIN pc :
        (Done(w) /\ InReadPdb(w)) =>
            /\ RaisedIff500(w)
            /\ (NotAnObject(w) \/ ReadFailed(w)) => Answered500(w)
            /\ (NonString(w) /\ ~FalsyNonString(w)) => Answered500(w)
            /\ FalsyNonString(w) =>
                   /\ raised[w] = NoExc
                   /\ resp[w] = Failure(400, <<"pdb_path required">>)

C4_Witness ==
    \E w \in DOMAIN pc :
        /\ Done(w) /\ NonString(w) /\ Given(w) = JList(<<"a">>)
        /\ raised[w].type = "TypeError"
        /\ resp[w] = Failure(500, <<"expected str, bytes or os.PathLike object, not ", "list">>)

\* C5: every response of read_pdb has status 200, 400, 404 or 500 and a
\* boolean success; success is true exactly when the status is 200; the
\* payload then has content and path and no error, and otherwise has error
\* and neither content nor path.
C5_ResponseShape ==
    \A w \in DOMAIN pc :
        (Done(w) /\ InReadPdb(w)) =>
            /\ resp[w].status \in {200, 400, 404, 500}
            /\ "success" \in DOMAIN resp[w].payload
            /\ resp[w].payload.success \in BOOLEAN
            /\ resp[w].payload.success <=> resp[w].status = 200
            /\ resp[w].payload.success =>
                   DOMAIN resp[w].payload = {"success", "content", "path"}
            /\ ~resp[w].payload.success =>
                   DOMAIN resp[w].payload = {"success", "error"}

C5_Witness ==
    \E w \in DOMAIN pc :
        /\ Done(w) /\ InReadPdb(w)
        /\ resp[w].status = 200
        /\ DOMAIN resp[w].payload = {"success", "content", "path"}

----------------------------------------------------------------------------
\* Properties of the server as a whole.

\* C6: the response to a request is decided by that request and by what the
\* filesystem held when the handler looked, whatever else the server has
\* handled or is handling: two requests that are the same and found the same
\* files get the same response, and a handler's local state comes from its
\* own request alone.
C6_ResponseFromOwnRequest ==
    /\ \A w, v \in DOMAIN pc :
           (Done(w) /\ Done(v) /\ req[w] = req[v] /\ seen[w] = seen[v]) =>
               resp[w] = resp[v]
    /\ \A w \in DOMAIN pc :
           /\ pc[w] = "idle" =>
                  /\ req[w] = NoReq /\ resp[w] = NoResp /\ pdb_path[w] = NoPath
                  /\ raised[w] = NoExc /\ ops[w] = <<>> /\ seen[w] = NoSeen
           /\ pdb_path[w] # NoPath =>
                  /\ ObjectBody(w)
                  /\ \/ pdb_path[w] = Given(w)
                     \/ Given(w) = JAbsent /\ pdb_path[w] = JNull
                     \/ Given(w).t = "str" /\ pdb_path[w] = Path(Given(w).s)

\* Two workers have answered the same request on the same findings while the
\* filesystem had changed in between.
C6_Witness ==
    \E w, v \in DOMAIN pc :
        /\ w # v /\ Done(w) /\ Done(v)
        /\ req[w] = req[v] /\ seen[w] = seen[v]
        /\ GivesPath(w) /\ resp[w].status = 404
        /\ fs["a"].kind = "file"

\* C7: every GET /api/health is answered 200 with exactly
\* {status: "ok", service: "3Dmol.js Viewer"}, whatever the files are, and its
\* handler makes no filesystem call and raises nothing.
C7_HealthIsFixed ==
    \A w \in DOMAIN pc :
        (pc[w] # "idle" /\ req[w].method = "GET" /\ req[w].url = ApiHealth) =>
            /\ pc[w] \in {"health", "done"}
            /\ ops[w] = <<>> /\ seen[w] = NoSeen /\ raised[w] = NoExc
            /\ Done(w) =>
                   resp[w] = [status |-> 200,
                              payload |-> [status |-> "ok",
                                           service |-> "3Dmol.js Viewer"]]

C7_Witness ==
    \E w \in DOMAIN pc :
        /\ Done(w) /\ req[w].method = "GET" /\ req[w].url = ApiHealth
        /\ resp[w].status = 200
        /\ fs["a"].kind = "dir" /\ fs["index.html"].kind = "absent"

\* The locations inside the server root.
UnderRoot == {"cwd", "a", "index.html", "api", "api/health"}

\* The path a static view serves: index.html for index, the URL path for
\* static_files.
StaticPath(w) == IF pc[w] = "index" THEN <<"index.html">> ELSE req[w].url

\* The location that path names for the kernel, from the server root.
StaticLoc(w) == Locate(Path(StaticPath(w)))

C9_StepsInOrder ==
    \A w \in DOMAIN pc :
        InReadPdb(w) =>
            /\ pc[w] = "read_pdb" => ops[w] = <<>>
            /\ pc[w] = "exists" => ops[w] = <<>> /\ seen[w] = NoSeen
            /\ pc[w] = "open" =>
                   /\ ops[w] = <<"exists">>
                   /\ seen[w].atCheck \in {"file", "dir"}
                   /\ seen[w].atOpen = Unseen
            /\ Done(w) =>
                   /\ ops[w] \in {<<>>, <<"exists">>, <<"exists", "open">>,
                                  <<"exists", "open", "read">>}
                   /\ resp[w].status = 404 =>
                          seen[w].atCheck = "absent" /\ ops[w] = <<"exists">>
                   /\ ( /\ seen[w].atCheck \in {"file", "dir"}
                        /\ \/ seen[w].atOpen.kind = "absent"
                           \/ ~seen[w].atOpen.readable )
                         => /\ resp[w].status = 500
                            /\ resp[w].payload.success = FALSE
                   /\ resp[w].status = 200 =>
                          /\ ops[w] = <<"exists", "open", "read">>
                          /\ seen[w].atCheck \in {"file", "dir"}
                          /\ seen[w].atOpen.kind = "file"
                          /\ resp[w].payload.content = Newlines(seen[w].atOpen.bytes)

\* The file was there at the check and gone at the open.
C9_Witness ==
    \E w \in DOMAIN pc :
        /\ Done(w) /\ GivesPath(w)
        /\ seen[w].atCheck = "file" /\ seen[w].atOpen.kind = "absent"
        /\ raised[w].type = "FileNotFoundError"
        /\ resp[w].status = 500

====
